---------------------------- MODULE Spec2Model ----------------------------
(***************************************************************************)
(* Model of scraper/utils.py: the conversion of markup or JSON text to an  *)
(* element tree (str_to_etree, json_to_etree, html_to_etree and the        *)
(* EtreeHTMLParser handlers).                                              *)
(*                                                                         *)
(* Representation of Python values:                                        *)
(*   - Optional[T] is a sequence of length at most one: <<>> is None and   *)
(*     <<v>> is the value v;                                               *)
(*   - a str that is only stored or compared (a tag, a key, a text) is a   *)
(*     TLA+ string;                                                        *)
(*   - a str that is scanned (the argument of str_to_etree, the data of    *)
(*     handle_data) is a sequence of pieces, each piece either one         *)
(*     whitespace character or a lexeme without whitespace; the str        *)
(*     itself is the concatenation of its pieces;                          *)
(*   - an ElementTree.Element built by the parser is an index into the     *)
(*     sequence nodes (creation order); 0 stands for None.  An element     *)
(*     returned to the caller is a nested record (see ToTree).             *)
(***************************************************************************)
EXTENDS Integers, Sequences, FiniteSets, TLC

VARIABLES
    \* EtreeHTMLParser instance
    nodes,       \* every Element created by this parser, in creation order
    tag_stack,   \* self.tag_stack
    cur_tag,     \* self.cur_tag (0 is None)
    after_end,   \* self.after_end
    raised,      \* the exception that left a handler ("" when none)
    pops,        \* iterations of the loop of the last handle_endtag
    events,      \* the handler calls made so far by the tokenizer
    pc,          \* "feeding", "done" (parse returned) or "failed"
    result,      \* the value parse returned
    \* json_to_etree call
    json_obj,    \* the argument json_obj
    tag,         \* the argument tag
    element,     \* the returned element (Optional)
    \* str_to_etree call
    string,      \* the argument string
    ret,         \* the outcome of the call (Optional)
    \* two html_to_etree calls on the same input
    call,        \* 1 during the first call, 2 during the second
    todo,        \* the handler calls the running parse has still to make
    first,       \* the element the first call returned (0 is None)
    first_heap   \* the elements as they were when the first call returned

vars == <<nodes, tag_stack, cur_tag, after_end, raised, pops, events, pc,
          result, json_obj, tag, element, string, ret,
          call, todo, first, first_heap>>

markupVars == <<nodes, tag_stack, cur_tag, after_end, raised, pops, events,
                pc, result>>
jsonVars == <<json_obj, tag, element>>
dispatchVars == <<string, ret>>
twiceVars == <<call, todo, first, first_heap>>

(***************************************************************************)
(* Bounds of the model.                                                    *)
(***************************************************************************)
MaxEvents == 5
MaxJsonSize == 4
MaxStringLen == 4
MaxReplay == 4

(***************************************************************************)
(* Python helpers.                                                         *)
(***************************************************************************)
None == <<>>
Some(v) == <<v>>

\* s[-1] and s[:-1]
Last(s) == s[Len(s)]
Front(s) == SubSeq(s, 1, Len(s) - 1)

\* Characters str.strip() removes (the ones the model's inputs contain).
Whitespace == {" ", "\n"}

RECURSIVE lstrip(_)
lstrip(s) ==
    IF s # <<>> /\ Head(s) \in Whitespace THEN lstrip(Tail(s)) ELSE s

RECURSIVE rstrip(_)
rstrip(s) ==
    IF s # <<>> /\ s[Len(s)] \in Whitespace
    THEN rstrip(SubSeq(s, 1, Len(s) - 1))
    ELSE s

\* str.strip() on a str given by its pieces
strip_pieces(s) == rstrip(lstrip(s))

\* the str a sequence of pieces stands for
RECURSIVE Concat(_)
Concat(s) == IF s = <<>> THEN "" ELSE Head(s) \o Concat(Tail(s))

\* ElementTree.Element(tag, attrib): no text, no tail, no children
Element(t, attrib) ==
    [tag |-> t, attrib |-> attrib, text |-> None, tail |-> None,
     children |-> <<>>]

\* {k: v or "" for k, v in attrs}: the last pair of a key wins, and a
\* missing (None) or empty value becomes ""
AttrDict(attrs) ==
    LET keys == {attrs[i][1] : i \in 1..Len(attrs)}
        last(k) == CHOOSE i \in 1..Len(attrs) :
                       /\ attrs[i][1] = k
                       /\ \A j \in (i+1)..Len(attrs) : attrs[j][1] # k
        val(o) == IF o = None \/ o[1] = "" THEN "" ELSE o[1]
    IN  [k \in keys |-> val(attrs[last(k)][2])]

(***************************************************************************)
(* EtreeHTMLParser.  A parser object is the record                         *)
(*   [nodes, tag_stack, cur_tag, after_end, raised, pops].                 *)
(***************************************************************************)
\* __init__
NewParser ==
    [nodes |-> <<>>, tag_stack |-> <<>>, cur_tag |-> 0, after_end |-> FALSE,
     raised |-> "", pops |-> 0]

\* variant: tag_stack, cur_tag and after_end are attributes of the class,
\* shared by every parser
init_class_level(heap) ==
    [heap EXCEPT !.raised = "", !.pops = 0]

\* __init__ of a parser constructed when the elements of heap.nodes exist
\* already: the attributes are set on the new instance, the elements that
\* exist stay as they are
init(heap) ==
    [nodes |-> heap.nodes, tag_stack |-> <<>>, cur_tag |-> 0,
     after_end |-> FALSE, raised |-> "", pops |-> 0]

\* variant: the new element is appended to the bottom of the stack
\* (tag_stack[0]) instead of its top
handle_starttag_bottom(self, t, attrs) ==
    LET new == Len(self.nodes) + 1
        created == Append(self.nodes, Element(t, AttrDict(attrs)))
        appended ==
            IF Len(self.tag_stack) > 0
            THEN [created EXCEPT ![self.tag_stack[1]].children =
                                     Append(@, new)]
            ELSE created
    IN  [self EXCEPT !.after_end = FALSE,
                     !.cur_tag = new,
                     !.nodes = appended,
                     !.tag_stack = Append(self.tag_stack, new),
                     !.pops = 0]

\* variant: the new element is pushed first and then appended to
\* tag_stack[-1], which is the element itself
handle_starttag_swapped(self, t, attrs) ==
    LET new == Len(self.nodes) + 1
        created == Append(self.nodes, Element(t, AttrDict(attrs)))
    IN  [self EXCEPT !.after_end = FALSE,
                     !.cur_tag = new,
                     !.nodes = [created EXCEPT ![new].children =
                                                   Append(@, new)],
                     !.tag_stack = Append(self.tag_stack, new),
                     !.pops = 0]

\* variant: the after-end flag is not cleared
handle_starttag_keeps_flag(self, t, attrs) ==
    LET new == Len(self.nodes) + 1
        created == Append(self.nodes, Element(t, AttrDict(attrs)))
        appended ==
            IF Len(self.tag_stack) > 0
            THEN [created EXCEPT ![Last(self.tag_stack)].children =
                                     Append(@, new)]
            ELSE created
    IN  [self EXCEPT !.cur_tag = new,
                     !.nodes = appended,
                     !.tag_stack = Append(self.tag_stack, new),
                     !.pops = 0]

\* variant: the new element is pushed at the front of the stack
handle_starttag_front(self, t, attrs) ==
    LET new == Len(self.nodes) + 1
        created == Append(self.nodes, Element(t, AttrDict(attrs)))
        appended ==
            IF Len(self.tag_stack) > 0
            THEN [created EXCEPT ![Last(self.tag_stack)].children =
                                     Append(@, new)]
            ELSE created
    IN  [self EXCEPT !.after_end = FALSE,
                     !.cur_tag = new,
                     !.nodes = appended,
                     !.tag_stack = <<new>> \o self.tag_stack,
                     !.pops = 0]

handle_starttag(self, t, attrs) ==
    LET new == Len(self.nodes) + 1
        created == Append(self.nodes, Element(t, AttrDict(attrs)))
        top == self.tag_stack[Len(self.tag_stack)]
        appended ==
            IF Len(self.tag_stack) > 0
            THEN [created EXCEPT ![top].children = Append(@, new)]
            ELSE created
    IN  [self EXCEPT !.after_end = FALSE,
                     !.cur_tag = new,
                     !.nodes = appended,
                     !.tag_stack = Append(self.tag_stack, new),
                     !.pops = 0]

\* error(self, message): raise ResultParseError.  The tokenizer of this
\* runtime never calls it.
error(self) == [self EXCEPT !.raised = "ResultParseError"]

\* any(item.tag == tag for item in self.tag_stack)
any_tag(self, t) ==
    \E i \in 1..Len(self.tag_stack) : self.nodes[self.tag_stack[i]].tag = t

\* the while loop of handle_endtag; list.pop() of an empty list raises
\* IndexError
RECURSIVE endtag_loop(_, _)
endtag_loop(self, t) ==
    IF any_tag(self, t)
    THEN IF self.tag_stack = <<>>
         THEN [self EXCEPT !.after_end = TRUE, !.raised = "IndexError"]
         ELSE LET n == Len(self.tag_stack)
                  popped == self.tag_stack[n]
                  s1 == [self EXCEPT !.after_end = TRUE,
                                     !.cur_tag = popped,
                                     !.tag_stack = SubSeq(@, 1, n - 1),
                                     !.pops = @ + 1]
              IN  IF self.nodes[popped].tag = t THEN s1
                  ELSE endtag_loop(s1, t)
    ELSE self

\* variant: "if" in place of "while", a single pop
handle_endtag_once(self, t) ==
    LET s0 == [self EXCEPT !.pops = 0]
        n == Len(self.tag_stack)
    IN  IF any_tag(s0, t)
        THEN [s0 EXCEPT !.after_end = TRUE,
                        !.cur_tag = self.tag_stack[n],
                        !.tag_stack = SubSeq(@, 1, n - 1),
                        !.pops = 1]
        ELSE s0

\* variant: the flag is set before the stack is searched
handle_endtag_flag(self, t) ==
    endtag_loop([self EXCEPT !.pops = 0, !.after_end = TRUE], t)

\* variant: an end tag that matches no open node is reported through error
handle_endtag_strict(self, t) ==
    IF any_tag(self, t) THEN endtag_loop([self EXCEPT !.pops = 0], t)
    ELSE error([self EXCEPT !.pops = 0])

\* variant: an element closed implicitly (popped above the matching one) is
\* removed from its parent's children
handle_endtag_detach(self, t) ==
    LET s == endtag_loop([self EXCEPT !.pops = 0], t)
        n == Len(self.tag_stack)
    IN  IF s.pops > 1
        THEN [s EXCEPT !.nodes[self.tag_stack[n - 1]].children = Front(@)]
        ELSE s

handle_endtag(self, t) == endtag_loop([self EXCEPT !.pops = 0], t)

\* variant: the data goes to the element on top of the stack
\* (tag_stack[-1]) instead of cur_tag
handle_data_top(self, data) ==
    LET s0 == [self EXCEPT !.pops = 0]
        stripped == Some(Concat(strip_pieces(data)))
        top == Last(self.tag_stack)
    IN  IF self.tag_stack # <<>>
        THEN IF self.after_end
             THEN [s0 EXCEPT !.nodes[top].tail = stripped]
             ELSE [s0 EXCEPT !.nodes[top].text = stripped]
        ELSE s0

\* variant: the branches are swapped, tail when the flag is clear
handle_data_swapped(self, data) ==
    LET s0 == [self EXCEPT !.pops = 0]
        stripped == Some(Concat(strip_pieces(data)))
    IN  IF self.cur_tag # 0
        THEN IF self.after_end
             THEN [s0 EXCEPT !.nodes[self.cur_tag].text = stripped]
             ELSE [s0 EXCEPT !.nodes[self.cur_tag].tail = stripped]
        ELSE s0

handle_data(self, data) ==
    LET s0 == [self EXCEPT !.pops = 0]
        stripped == Some(Concat(strip_pieces(data)))
    IN  IF self.cur_tag # 0
        THEN IF self.after_end
             THEN [s0 EXCEPT !.nodes[self.cur_tag].tail = stripped]
             ELSE [s0 EXCEPT !.nodes[self.cur_tag].text = stripped]
        ELSE s0

\* variant: the first element created is returned (the outermost root)
returned_first(self) == IF self.nodes = <<>> THEN 0 ELSE 1

\* return self.cur_tag
returned(self) == self.cur_tag

(***************************************************************************)
(* Decoded JSON values (what json.loads returns).  A dict is the sequence  *)
(* of its (key, value) items in iteration order; its keys are distinct.    *)
(***************************************************************************)
JNull == [type |-> "null"]
JBool(b) == [type |-> "bool", b |-> b]
JInt(n) == [type |-> "int", n |-> n]
JStr(s) == [type |-> "str", s |-> s]
JList(items) == [type |-> "list", items |-> items]
JDict(items) == [type |-> "dict", items |-> items]

Digits == <<"0", "1", "2", "3", "4", "5", "6", "7", "8", "9">>

\* str(n) of an int
RECURSIVE str_nat(_)
str_nat(n) ==
    IF n < 10 THEN Digits[n + 1]
    ELSE str_nat(n \div 10) \o Digits[(n % 10) + 1]

str_int(n) == IF n < 0 THEN "-" \o str_nat(-n) ELSE str_nat(n)

\* str(json_obj) of a scalar that is not None
py_str(obj) ==
    CASE obj.type = "bool" -> IF obj.b THEN "True" ELSE "False"
      [] obj.type = "int" -> str_int(obj.n)
      [] obj.type = "str" -> obj.s

\* an empty dict (Element(tag) has no attributes)
EmptyDict == AttrDict(<<>>)

RECURSIVE json_to_etree(_, _)
\* variant: enumerate(json_obj, 1), the names start at "i1"
RECURSIVE json_to_etree_one_based(_, _)
json_to_etree_one_based(obj, t) ==
    LET el == Element(t, EmptyDict)
    IN  IF obj.type = "list"
        THEN [el EXCEPT !.children =
                 [i \in 1..Len(obj.items) |->
                      json_to_etree_one_based(obj.items[i],
                                              "i" \o str_int(i))]]
        ELSE IF obj.type = "dict"
        THEN [el EXCEPT !.children =
                 [i \in 1..Len(obj.items) |->
                      json_to_etree_one_based(obj.items[i][2],
                                              obj.items[i][1])]]
        ELSE IF obj.type # "null"
        THEN [el EXCEPT !.text = Some(py_str(obj))]
        ELSE el

\* variant: the items of a dict are taken in reverse order
RECURSIVE json_to_etree_reversed(_, _)
json_to_etree_reversed(obj, t) ==
    LET el == Element(t, EmptyDict)
        n == Len(obj.items)
    IN  IF obj.type = "list"
        THEN [el EXCEPT !.children =
                 [i \in 1..n |->
                      json_to_etree_reversed(obj.items[i],
                                             "i" \o str_int(i - 1))]]
        ELSE IF obj.type = "dict"
        THEN [el EXCEPT !.children =
                 [i \in 1..n |->
                      json_to_etree_reversed(obj.items[n + 1 - i][2],
                                             obj.items[n + 1 - i][1])]]
        ELSE IF obj.type # "null"
        THEN [el EXCEPT !.text = Some(py_str(obj))]
        ELSE el

\* variant: "else" in place of "elif json_obj is not None", str(None)
RECURSIVE json_to_etree_str_none(_, _)
json_to_etree_str_none(obj, t) ==
    LET el == Element(t, EmptyDict)
    IN  IF obj.type = "list"
        THEN [el EXCEPT !.children =
                 [i \in 1..Len(obj.items) |->
                      json_to_etree_str_none(obj.items[i],
                                             "i" \o str_int(i - 1))]]
        ELSE IF obj.type = "dict"
        THEN [el EXCEPT !.children =
                 [i \in 1..Len(obj.items) |->
                      json_to_etree_str_none(obj.items[i][2],
                                             obj.items[i][1])]]
        ELSE [el EXCEPT !.text =
                 Some(IF obj.type = "null" THEN "None" ELSE py_str(obj))]

json_to_etree(obj, t) ==
    LET el == Element(t, EmptyDict)
    IN  IF obj.type = "list"
        THEN [el EXCEPT !.children =
                 [i \in 1..Len(obj.items) |->
                      json_to_etree(obj.items[i], "i" \o str_int(i - 1))]]
        ELSE IF obj.type = "dict"
        THEN [el EXCEPT !.children =
                 [i \in 1..Len(obj.items) |->
                      json_to_etree(obj.items[i][2], obj.items[i][1])]]
        ELSE IF obj.type # "null"
        THEN [el EXCEPT !.text = Some(py_str(obj))]
        ELSE el

(***************************************************************************)
(* The decoded values json_to_etree is applied to: every value of at most  *)
(* MaxJsonSize nodes over these scalars and keys.                          *)
(***************************************************************************)
Scalars == {JNull, JBool(TRUE), JInt(10), JStr("x"), JStr("")}
Keys == {"a", ""}
RootNames == {"root", "r"}

\* the sequences of n distinct keys
RECURSIVE KeySeqs(_)
KeySeqs(n) ==
    IF n = 0 THEN {<<>>}
    ELSE {Append(ks, k) : <<ks, k>> \in
              {x \in KeySeqs(n - 1) \X Keys :
                   \A i \in 1..Len(x[1]) : x[1][i] # x[2]}}

\* ValuesOfSize(n): the values of exactly n nodes;
\* ListsOfSize(m): the sequences of values of m nodes in all
RECURSIVE ValuesOfSize(_)
RECURSIVE ListsOfSize(_)
ListsOfSize(m) ==
    IF m = 0 THEN {<<>>}
    ELSE UNION {{<<v>> \o r : <<v, r>> \in
                     ValuesOfSize(k) \X ListsOfSize(m - k)} : k \in 1..m}

ValuesOfSize(n) ==
    IF n = 1 THEN Scalars \cup {JList(<<>>), JDict(<<>>)}
    ELSE {JList(l) : l \in ListsOfSize(n - 1)}
         \cup {JDict([i \in 1..Len(x[1]) |-> <<x[2][i], x[1][i]>>]) :
                  x \in {y \in ListsOfSize(n - 1) \X
                                   UNION {KeySeqs(j) : j \in 1..Cardinality(Keys)} :
                             Len(y[1]) = Len(y[2])}}

JsonValues == UNION {ValuesOfSize(n) : n \in 1..MaxJsonSize}

(***************************************************************************)
(* Events: the handler calls the tokenizer makes.                          *)
(***************************************************************************)
StartTag(t, attrs) == [kind |-> "StartTag", tag |-> t, attrs |-> attrs,
                       data |-> <<>>]
EndTag(t) == [kind |-> "EndTag", tag |-> t, attrs |-> <<>>, data |-> <<>>]
Text(data) == [kind |-> "Text", tag |-> "", attrs |-> <<>>, data |-> data]

\* one handler call
Handle(self, e) ==
    CASE e.kind = "StartTag" -> handle_starttag(self, e.tag, e.attrs)
      [] e.kind = "EndTag" -> handle_endtag(self, e.tag)
      [] e.kind = "Text" -> handle_data(self, e.data)

TagNames == {"a", "b"}
AttrLists == {<<>>, << <<"k", None>> >>}
DataValues == {<<"x">>, <<" ", "y", "\n">>, <<" ">>}

(***************************************************************************)
(* Scanned strings.  A str is a sequence of pieces; these are the pieces   *)
(* the inputs of str_to_etree are made of: one whitespace character, a     *)
(* complete start or end tag, a JSON punctuation character, a digit, an    *)
(* object key with its colon, and a letter.                                *)
(***************************************************************************)
StartTagPieces == {"<a>"}
EndTagPieces == {"</a>"}
KeyPieces == {"\"k\":"}
\* a marked section with a keyword the tokenizer does not know
MarkedSectionPieces == {"<![x]>"}
Pieces == {" ", "x", "[", "]", "{", "}", ",", "1"}
              \cup StartTagPieces \cup EndTagPieces \cup KeyPieces
              \cup MarkedSectionPieces

\* the first character of a piece
FirstChar(p) ==
    CASE p \in StartTagPieces \cup EndTagPieces \cup MarkedSectionPieces -> "<"
      [] p \in KeyPieces -> "\""
      [] OTHER -> p

\* string.startswith(c), c one character
startswith(s, c) == s # <<>> /\ FirstChar(s[1]) = c

\* the name inside a tag piece, the key inside a key piece
TagOf(p) == CASE p = "<a>" -> "a" [] p = "</a>" -> "a"
KeyOf(p) == CASE p = "\"k\":" -> "k"

(***************************************************************************)
(* json.loads(string, strict=False) on a str given by its pieces: the      *)
(* decoder of the standard library (json.decoder, json.scanner).  The      *)
(* result is [ok, value, pos]: ok is FALSE when JSONDecodeError is raised, *)
(* pos is the position after the value.                                    *)
(***************************************************************************)
JsonFail == [ok |-> FALSE, value |-> JNull, pos |-> 0]
JsonOk(v, pos) == [ok |-> TRUE, value |-> v, pos |-> pos]

\* WHITESPACE.match(s, i).end()
RECURSIVE skip_ws(_, _)
skip_ws(s, i) ==
    IF i <= Len(s) /\ s[i] \in Whitespace THEN skip_ws(s, i + 1) ELSE i

\* the end of the run of digits that starts at i
RECURSIVE digits_end(_, _)
digits_end(s, i) ==
    IF i <= Len(s) /\ s[i] = "1" THEN digits_end(s, i + 1) ELSE i

\* int("1" * n)
RECURSIVE ones(_)
ones(n) == IF n = 0 THEN 0 ELSE 10 * ones(n - 1) + 1

\* dict(pairs): a repeated key keeps its first position and takes the last
\* value
RECURSIVE dict_of(_)
dict_of(pairs) ==
    IF pairs = <<>> THEN <<>>
    ELSE LET d == dict_of(Front(pairs))
             kv == Last(pairs)
         IN  IF \E i \in 1..Len(d) : d[i][1] = kv[1]
             THEN [i \in 1..Len(d) |->
                       IF d[i][1] = kv[1] THEN kv ELSE d[i]]
             ELSE Append(d, kv)

RECURSIVE scan_once(_, _)
RECURSIVE array_items(_, _, _)
RECURSIVE object_items(_, _, _)

\* JSONArray, after the "["
parse_array(s, i) ==
    LET j == skip_ws(s, i)
    IN  IF j <= Len(s) /\ s[j] = "]" THEN JsonOk(JList(<<>>), j + 1)
        ELSE array_items(s, j, <<>>)

\* the loop of JSONArray: a value, then "]" or ","
array_items(s, i, acc) ==
    LET r == scan_once(s, i)
        j == skip_ws(s, r.pos)
    IN  IF ~r.ok \/ j > Len(s) THEN JsonFail
        ELSE IF s[j] = "]" THEN JsonOk(JList(Append(acc, r.value)), j + 1)
        ELSE IF s[j] = ","
        THEN array_items(s, skip_ws(s, j + 1), Append(acc, r.value))
        ELSE JsonFail

\* JSONObject, after the "{"
parse_object(s, i) ==
    LET j == skip_ws(s, i)
    IN  IF j > Len(s) THEN JsonFail
        ELSE IF s[j] = "}" THEN JsonOk(JDict(<<>>), j + 1)
        ELSE IF s[j] \in KeyPieces THEN object_items(s, j, <<>>)
        ELSE JsonFail

\* the loop of JSONObject: at a key and its colon, then a value, then "}"
\* or "," and the next key
object_items(s, i, pairs) ==
    LET r == scan_once(s, skip_ws(s, i + 1))
        j == skip_ws(s, r.pos)
        more == Append(pairs, <<KeyOf(s[i]), r.value>>)
        k == skip_ws(s, j + 1)
    IN  IF ~r.ok \/ j > Len(s) THEN JsonFail
        ELSE IF s[j] = "}" THEN JsonOk(JDict(dict_of(more)), j + 1)
        ELSE IF s[j] = "," /\ k <= Len(s) /\ s[k] \in KeyPieces
        THEN object_items(s, k, more)
        ELSE JsonFail

\* scan_once: a value starts at i.  A str followed by a colon (a key
\* piece) is never a value: nothing that follows a value is a colon.
scan_once(s, i) ==
    IF i > Len(s) THEN JsonFail
    ELSE CASE s[i] = "[" -> parse_array(s, i + 1)
           [] s[i] = "{" -> parse_object(s, i + 1)
           [] s[i] = "1" ->
                  JsonOk(JInt(ones(digits_end(s, i) - i)), digits_end(s, i))
           [] OTHER -> JsonFail

\* JSONDecoder.decode: a value, then only whitespace
json_loads(s) ==
    LET r == scan_once(s, skip_ws(s, 1))
    IN  IF r.ok /\ skip_ws(s, r.pos) > Len(s) THEN r ELSE JsonFail

(***************************************************************************)
(* HTMLParser.feed and close on a str given by its pieces: the handler     *)
(* calls the tokenizer of the standard library makes.  A tag piece gives   *)
(* its start or end tag event, a maximal run of other pieces gives one     *)
(* handle_data call.                                                       *)
(***************************************************************************)
IsTagPiece(p) ==
    p \in StartTagPieces \cup EndTagPieces \cup MarkedSectionPieces

\* the end of the run of text that starts at i
RECURSIVE text_end(_, _)
text_end(s, i) ==
    IF i <= Len(s) /\ ~IsTagPiece(s[i]) THEN text_end(s, i + 1) ELSE i

RECURSIVE tokenize_from(_, _)
tokenize_from(s, i) ==
    IF i > Len(s) THEN <<>>
    \* parse_marked_section raises: no handler is called any more
    ELSE IF s[i] \in MarkedSectionPieces THEN <<>>
    ELSE IF s[i] \in StartTagPieces
    THEN <<StartTag(TagOf(s[i]), <<>>)>> \o tokenize_from(s, i + 1)
    ELSE IF s[i] \in EndTagPieces
    THEN <<EndTag(TagOf(s[i]))>> \o tokenize_from(s, i + 1)
    ELSE <<Text(SubSeq(s, i, text_end(s, i) - 1))>>
             \o tokenize_from(s, text_end(s, i))

Tokenize(s) == tokenize_from(s, 1)

\* self.feed(html) is left by the AssertionError of the tokenizer, which
\* has no call of self.error
feed_raises(s) == \E i \in 1..Len(s) : s[i] \in MarkedSectionPieces

\* the element with index i of a parser, as the caller sees it
RECURSIVE ToTree(_, _)
ToTree(ns, i) ==
    [ns[i] EXCEPT !.children =
         [j \in 1..Len(ns[i].children) |-> ToTree(ns, ns[i].children[j])]]

\* self.feed(html): every handler call, in order
RECURSIVE feed(_, _)
feed(self, evs) ==
    IF evs = <<>> THEN self ELSE feed(Handle(self, Head(evs)), Tail(evs))

\* EtreeHTMLParser.parse: returns self.cur_tag
parse(self, html) ==
    LET fed == feed(self, Tokenize(html))
        root == returned(fed)
    IN  IF feed_raises(html)
        THEN [raised |-> "AssertionError", value |-> None]
        ELSE [raised |-> "",
              value |-> IF root = 0 THEN None
                        ELSE Some(ToTree(fed.nodes, root))]

html_to_etree(html_text) == parse(NewParser, html_text)

(***************************************************************************)
(* str_to_etree.  The outcome of a call is [raised, value, calls]: the     *)
(* exception that left the call ("" when it returned), the value returned  *)
(* (an Optional element) and the functions it called.                      *)
(***************************************************************************)
Returned(v, calls) == [raised |-> "", value |-> v, calls |-> calls]
Raised(exc, calls) == [raised |-> exc, value |-> None, calls |-> calls]
\* the outcome r of a callee is the outcome of the call
Outcome(r, calls) ==
    IF r.raised = "" THEN Returned(r.value, calls) ELSE Raised(r.raised, calls)

\* variant: "else" in place of 'elif string.startswith("<")'
str_to_etree_else(str) ==
    LET s == strip_pieces(str)
        decoded == json_loads(s)
    IN  IF startswith(s, "{") \/ startswith(s, "[")
        THEN IF decoded.ok
             THEN Returned(Some(json_to_etree(decoded.value, "root")),
                           {"json.loads", "json_to_etree"})
             ELSE Raised("JSONDecodeError", {"json.loads"})
        ELSE Outcome(html_to_etree(s), {"html_to_etree"})

\* variant: the markup branch calls html_to_etree and forgets to return
str_to_etree_no_return(str) ==
    LET s == strip_pieces(str)
        decoded == json_loads(s)
    IN  IF startswith(s, "{") \/ startswith(s, "[")
        THEN IF decoded.ok
             THEN Returned(Some(json_to_etree(decoded.value, "root")),
                           {"json.loads", "json_to_etree"})
             ELSE Raised("JSONDecodeError", {"json.loads"})
        ELSE IF startswith(s, "<")
        THEN Outcome([html_to_etree(s) EXCEPT !.value = None],
                     {"html_to_etree"})
        ELSE Returned(None, {})

str_to_etree(str) ==
    LET s == strip_pieces(str)
        decoded == json_loads(s)
    IN  IF startswith(s, "{") \/ startswith(s, "[")
        THEN IF decoded.ok
             THEN Returned(Some(json_to_etree(decoded.value, "root")),
                           {"json.loads", "json_to_etree"})
             ELSE Raised("JSONDecodeError", {"json.loads"})
        ELSE IF startswith(s, "<")
        THEN Outcome(html_to_etree(s), {"html_to_etree"})
        ELSE Returned(None, {})

(***************************************************************************)
(* The parser fed one event at a time.                                     *)
(***************************************************************************)
Self == [nodes |-> nodes, tag_stack |-> tag_stack, cur_tag |-> cur_tag,
         after_end |-> after_end, raised |-> raised, pops |-> pops]

Becomes(s, e) ==
    /\ nodes' = s.nodes
    /\ tag_stack' = s.tag_stack
    /\ cur_tag' = s.cur_tag
    /\ after_end' = s.after_end
    /\ raised' = s.raised
    /\ pops' = s.pops
    /\ events' = Append(events, e)
    /\ pc' = IF s.raised = "" THEN "feeding" ELSE "failed"
    /\ UNCHANGED <<result, jsonVars, dispatchVars, call, first, first_heap>>

Feeding == pc = "feeding" /\ Len(events) < MaxEvents

HandleStartTag ==
    /\ Feeding
    /\ \E t \in TagNames, attrs \in AttrLists :
           Becomes(handle_starttag(Self, t, attrs), StartTag(t, attrs))
    /\ UNCHANGED todo

HandleEndTag ==
    /\ Feeding
    /\ \E t \in TagNames : Becomes(handle_endtag(Self, t), EndTag(t))
    /\ UNCHANGED todo

HandleData ==
    /\ Feeding
    /\ \E data \in DataValues : Becomes(handle_data(Self, data), Text(data))
    /\ UNCHANGED todo

\* the tokenizer meets a marked section it cannot parse: AssertionError
\* leaves self.feed, self.error is not called
TokenizerError ==
    /\ Feeding
    /\ raised' = "AssertionError"
    /\ pc' = "failed"
    /\ UNCHANGED <<nodes, tag_stack, cur_tag, after_end, pops, events,
                   result, jsonVars, dispatchVars, twiceVars>>

\* parse: the input is exhausted, return self.cur_tag
Return ==
    /\ pc = "feeding"
    /\ todo = <<>>
    /\ pc' = "done"
    /\ result' = returned(Self)
    /\ UNCHANGED <<nodes, tag_stack, cur_tag, after_end, raised, pops,
                   events, jsonVars, dispatchVars, twiceVars>>

Init ==
    /\ nodes = NewParser.nodes
    /\ tag_stack = NewParser.tag_stack
    /\ cur_tag = NewParser.cur_tag
    /\ after_end = NewParser.after_end
    /\ raised = NewParser.raised
    /\ pops = NewParser.pops
    /\ events = <<>>
    /\ pc = "feeding"
    /\ result = 0
    /\ json_obj = JNull /\ tag = "root" /\ element = None
    /\ string = <<>> /\ ret = None
    /\ call = 1 /\ todo = <<>> /\ first = 0 /\ first_heap = <<>>

Next ==
    \/ HandleStartTag
    \/ HandleEndTag
    \/ HandleData
    \/ TokenizerError
    \/ Return

Spec == Init /\ [][Next]_vars

(***************************************************************************)
(* json_to_etree applied to a decoded value.                               *)
(***************************************************************************)
MarkupIdle ==
    /\ nodes = NewParser.nodes
    /\ tag_stack = NewParser.tag_stack
    /\ cur_tag = NewParser.cur_tag
    /\ after_end = NewParser.after_end
    /\ raised = NewParser.raised
    /\ pops = NewParser.pops
    /\ events = <<>>
    /\ pc = "idle"
    /\ result = 0
    /\ call = 1 /\ todo = <<>> /\ first = 0 /\ first_heap = <<>>

InitJson ==
    /\ MarkupIdle
    /\ json_obj \in JsonValues
    /\ tag \in RootNames
    /\ element = None
    /\ string = <<>> /\ ret = None

JsonToEtree ==
    /\ element = None
    /\ element' = Some(json_to_etree(json_obj, tag))
    /\ UNCHANGED <<markupVars, json_obj, tag, dispatchVars, twiceVars>>

NextJson == JsonToEtree

SpecJson == InitJson /\ [][NextJson]_vars

(***************************************************************************)
(* str_to_etree applied to a string.                                       *)
(***************************************************************************)
\* the strings of n pieces
StringsOfLen(n) == [1..n -> Pieces]

Strings == UNION {StringsOfLen(n) : n \in 0..MaxStringLen}

InitDispatch ==
    /\ MarkupIdle
    /\ json_obj = JNull /\ tag = "root" /\ element = None
    /\ string \in Strings
    /\ ret = None

StrToEtree ==
    /\ ret = None
    /\ ret' = Some(str_to_etree(string))
    /\ UNCHANGED <<markupVars, jsonVars, string, twiceVars>>

NextDispatch == StrToEtree

SpecDispatch == InitDispatch /\ [][NextDispatch]_vars

(***************************************************************************)
(* html_to_etree called twice on the same input: the second call           *)
(* constructs a new EtreeHTMLParser and its tokenizer makes the handler    *)
(* calls of the first call again, in the same order.                       *)
(***************************************************************************)
EventSet ==
    {StartTag(t, attrs) : t \in TagNames, attrs \in AttrLists}
        \cup {EndTag(t) : t \in TagNames}
        \cup {Text(data) : data \in DataValues}

\* the first call: one more handler call
FirstFeed ==
    /\ call = 1
    /\ pc = "feeding"
    /\ Len(events) < MaxReplay
    /\ \E e \in EventSet : Becomes(Handle(Self, e), e)
    /\ UNCHANGED todo

\* html_to_etree again: EtreeHTMLParser() and the start of parse
SecondCall ==
    /\ call = 1
    /\ pc = "done"
    /\ call' = 2
    /\ first' = result
    /\ first_heap' = nodes
    /\ todo' = events
    /\ events' = <<>>
    /\ LET s == init(Self)
       IN  /\ nodes' = s.nodes
           /\ tag_stack' = s.tag_stack
           /\ cur_tag' = s.cur_tag
           /\ after_end' = s.after_end
           /\ raised' = s.raised
           /\ pops' = s.pops
    /\ pc' = "feeding"
    /\ result' = 0
    /\ UNCHANGED <<jsonVars, dispatchVars>>

\* the second call: the next handler call
Replay ==
    /\ call = 2
    /\ pc = "feeding"
    /\ todo # <<>>
    /\ Becomes(Handle(Self, Head(todo)), Head(todo))
    /\ todo' = Tail(todo)

NextTwice ==
    \/ FirstFeed
    \/ Return
    \/ SecondCall
    \/ Replay

SpecTwice == Init /\ [][NextTwice]_vars

(***************************************************************************)
(* Reference nesting of an event sequence, computed from the events alone: *)
(* the k-th StartTag opens node k, an EndTag closes the innermost open     *)
(* node.                                                                   *)
(***************************************************************************)
\* number of StartTag events in ev
RECURSIVE Opened(_)
Opened(ev) ==
    IF ev = <<>> THEN 0
    ELSE Opened(Front(ev)) + (IF Last(ev).kind = "StartTag" THEN 1 ELSE 0)

\* the open nodes after ev, outermost first
RECURSIVE RefStack(_)
RefStack(ev) ==
    IF ev = <<>> THEN <<>>
    ELSE LET before == RefStack(Front(ev))
         IN  CASE Last(ev).kind = "StartTag" -> Append(before, Opened(ev))
               [] Last(ev).kind = "EndTag" ->
                      IF before = <<>> THEN <<>> ELSE Front(before)
               [] OTHER -> before

\* the name given to node k by its StartTag
RECURSIVE RefName(_, _)
RefName(ev, k) ==
    IF Last(ev).kind = "StartTag" /\ Opened(ev) = k THEN Last(ev).tag
    ELSE RefName(Front(ev), k)

\* every EndTag of ev names the innermost open node
RECURSIVE ProperlyNested(_)
ProperlyNested(ev) ==
    IF ev = <<>> THEN TRUE
    ELSE /\ ProperlyNested(Front(ev))
         /\ Last(ev).kind = "EndTag" =>
                LET before == RefStack(Front(ev))
                IN  /\ before # <<>>
                    /\ RefName(Front(ev), Last(before)) = Last(ev).tag

\* the node directly enclosing node k (0 when k is top-level)
RECURSIVE RefParent(_, _)
RefParent(ev, k) ==
    IF Last(ev).kind = "StartTag" /\ Opened(ev) = k
    THEN LET before == RefStack(Front(ev))
         IN  IF before = <<>> THEN 0 ELSE Last(before)
    ELSE RefParent(Front(ev), k)

\* the nodes among from..Opened(ev) opened directly inside node n, in the
\* order they were opened
RECURSIVE RefChildrenFrom(_, _, _)
RefChildrenFrom(ev, n, from) ==
    IF from > Opened(ev) THEN <<>>
    ELSE (IF RefParent(ev, from) = n THEN <<from>> ELSE <<>>)
         \o RefChildrenFrom(ev, n, from + 1)

RefChildren(ev, n) == RefChildrenFrom(ev, n, 1)

OnlyTags(ev) == \A i \in 1..Len(ev) : ev[i].kind \in {"StartTag", "EndTag"}

\* a step that is one handler call, and the event it handled
HandlerStep == Len(events') = Len(events) + 1
Handled == Last(events')

\* position in tag_stack of the topmost node named t (0 when there is none)
TopmostNamed(t) ==
    LET S == {i \in 1..Len(tag_stack) : nodes[tag_stack[i]].tag = t}
    IN  IF S = {} THEN 0 ELSE CHOOSE i \in S : \A j \in S : j <= i

(***************************************************************************)
(* C1: for a sequence of StartTag and EndTag events in which every EndTag  *)
(* names the innermost open node, the tree matches the nesting: the nodes  *)
(* are the opened ones with their names, each node's children are exactly  *)
(* the nodes opened directly inside it, in opening order, and the stack    *)
(* holds exactly the nodes not yet closed (it is empty once every opened   *)
(* node is closed).                                                        *)
(***************************************************************************)
C1_TreeMatchesNesting ==
    (OnlyTags(events) /\ ProperlyNested(events)) =>
        /\ Len(nodes) = Opened(events)
        /\ \A n \in 1..Len(nodes) :
               /\ nodes[n].tag = RefName(events, n)
               /\ nodes[n].children = RefChildren(events, n)
        /\ tag_stack = RefStack(events)
        /\ (RefStack(events) = <<>> => tag_stack = <<>>)

\* <a><b></b></a>, returned
C1_Witness ==
    /\ events = <<StartTag("a", <<>>), StartTag("b", <<>>), EndTag("b"),
                  EndTag("a")>>
    /\ tag_stack = <<>>
    /\ nodes[1].children = <<2>>
    /\ pc = "done"

(***************************************************************************)
(* C2: an EndTag(name) handled while some node on the stack has that name  *)
(* pops exactly the nodes from the top down to and including the topmost   *)
(* node named name, leaves the nodes below it on the stack, makes that     *)
(* node current and sets the after-end flag; after StartTag(a),            *)
(* StartTag(b), EndTag(a) both nodes are popped, b is a child of a and the *)
(* returned root is a.                                                     *)
(***************************************************************************)
C2_Example == <<StartTag("a", <<>>), StartTag("b", <<>>), EndTag("a")>>

C2_EndTagPopsToMatch ==
    [][/\ (HandlerStep /\ Handled.kind = "EndTag"
             /\ TopmostNamed(Handled.tag) # 0) =>
              LET k == TopmostNamed(Handled.tag)
              IN  /\ tag_stack' = SubSeq(tag_stack, 1, k - 1)
                  /\ pops' = Len(tag_stack) - k + 1
                  /\ cur_tag' = tag_stack[k]
                  /\ after_end' = TRUE
       /\ (events' = C2_Example) =>
              /\ tag_stack' = <<>>
              /\ nodes'[1].tag = "a" /\ nodes'[1].children = <<2>>
              /\ nodes'[2].tag = "b"
              /\ cur_tag' = 1
              /\ (pc' = "done" => result' = 1)
      ]_vars

\* <a><a><b></a>: b and the inner a are popped, the outer a stays
C2_Witness ==
    /\ events = <<StartTag("a", <<>>), StartTag("a", <<>>),
                  StartTag("b", <<>>), EndTag("a")>>
    /\ tag_stack = <<1>>
    /\ cur_tag = 2
    /\ pops = 2
    /\ after_end

(***************************************************************************)
(* C3: an EndTag(name) handled while no node on the stack has that name    *)
(* changes nothing: the stack, current, the after-end flag and every       *)
(* node's text, tail and children stay as they were; when only such        *)
(* EndTags were handled, current is unset and the returned root is None.   *)
(***************************************************************************)
C3_UnmatchedEndTagIsNoOp ==
    [][/\ (HandlerStep /\ Handled.kind = "EndTag"
             /\ TopmostNamed(Handled.tag) = 0) =>
              /\ UNCHANGED <<nodes, tag_stack, cur_tag, after_end>>
              /\ raised' = ""
       /\ (\A i \in 1..Len(events') : events'[i].kind = "EndTag") =>
              /\ cur_tag' = 0
              /\ (pc' = "done" => result' = 0)
      ]_vars

\* <a>x</b>: the end tag is ignored with a open, its text set and the flag
\* clear
C3_Witness ==
    /\ events = <<StartTag("a", <<>>), Text(<<"x">>), EndTag("b")>>
    /\ tag_stack = <<1>>
    /\ cur_tag = 1
    /\ ~after_end
    /\ nodes[1].text = Some("x")

(***************************************************************************)
(* The input of str_to_etree as the claims describe it, read off the       *)
(* pieces of the string.                                                   *)
(***************************************************************************)
\* the whitespace-trimmed input: the pieces between the first and the last
\* piece that is not whitespace
TrimOf(s) ==
    LET I == {i \in 1..Len(s) : s[i] \notin Whitespace}
    IN  IF I = {} THEN <<>>
        ELSE SubSeq(s, CHOOSE i \in I : \A j \in I : i <= j,
                       CHOOSE i \in I : \A j \in I : j <= i)

Trimmed == TrimOf(string)

StartsWithAny(cs) == Trimmed # <<>> /\ FirstChar(Trimmed[1]) \in cs
LooksLikeJson == StartsWithAny({"{", "["})
LooksLikeMarkup == StartsWithAny({"<"})
HasStartTag == \E i \in 1..Len(string) : string[i] \in StartTagPieces
Called == ret # None

(***************************************************************************)
(* C4 as stated: whenever the trimmed input starts with "<", "{" or "["    *)
(* and the call does not fail, str_to_etree returns an existing root;      *)
(* None is returned only when the input format is not recognized.          *)
(***************************************************************************)
C4_Original ==
    (Called /\ ret[1].raised = "") =>
        /\ (LooksLikeJson \/ LooksLikeMarkup) => ret[1].value # None
        /\ ret[1].value = None => ~(LooksLikeJson \/ LooksLikeMarkup)

(***************************************************************************)
(* C4 as amended: whenever the trimmed input starts with "{" or "[" and    *)
(* the call does not fail, str_to_etree returns an existing root; when it  *)
(* starts with "<" and the call does not fail, it returns an existing root *)
(* if the tokenizer reports at least one start tag and None if it reports  *)
(* none.  None is returned only when the input format is not recognized or *)
(* the markup holds no start tag.                                          *)
(***************************************************************************)
C4_RootExists ==
    (Called /\ ret[1].raised = "") =>
        /\ LooksLikeJson => ret[1].value # None
        /\ LooksLikeMarkup => (ret[1].value # None <=> HasStartTag)
        /\ ret[1].value = None =>
               \/ ~(LooksLikeJson \/ LooksLikeMarkup)
               \/ (LooksLikeMarkup /\ ~HasStartTag)

\* " </a><a>x": a root is returned, the end tag before it is ignored
C4_Witness ==
    /\ Called
    /\ string = <<" ", "</a>", "<a>", "x">>
    /\ ret[1].raised = ""
    /\ ret[1].value # None
    /\ ret[1].value[1].tag = "a"
    /\ ret[1].value[1].text = Some("x")

(***************************************************************************)
(* C5: for every input whose trimmed form is empty or starts with a        *)
(* character other than "{", "[" and "<", str_to_etree returns None: it    *)
(* raises nothing and calls neither builder nor the JSON decoder.          *)
(***************************************************************************)
C5_NotRecognized ==
    (Called /\ ~LooksLikeJson /\ ~LooksLikeMarkup) =>
        /\ ret[1].raised = ""
        /\ ret[1].value = None
        /\ ret[1].calls = {}

\* "x<a>": markup after a letter is not recognized
C5_Witness ==
    /\ Called
    /\ string = <<"x", "<a>">>
    /\ ret[1] = Returned(None, {})

(***************************************************************************)
(* C6: when the trimmed input starts with "{" or "[" and JSON decoding of  *)
(* it fails, str_to_etree fails with ResultParseError, with no other kind  *)
(* of error, and returns no tree.                                          *)
(***************************************************************************)
C6_DecodeFailureKind ==
    (Called /\ LooksLikeJson /\ ~json_loads(Trimmed).ok) =>
        /\ ret[1].raised = "ResultParseError"
        /\ ret[1].value = None

(***************************************************************************)
(* C7: whatever the sequence of StartTag, EndTag and Text events, no       *)
(* handler call raises (the ResultParseError outcome is never reached by a *)
(* handler) and each EndTag ends after popping at most as many nodes as    *)
(* were on the stack.                                                      *)
(***************************************************************************)
C7_HandlersNeverFail ==
    [][HandlerStep =>
           /\ raised' = ""
           /\ pc' = "feeding"
           /\ pops' <= Len(tag_stack)
           /\ Len(tag_stack') =
                  Len(tag_stack) - pops'
                  + (IF Handled.kind = "StartTag" THEN 1 ELSE 0)
      ]_vars

\* <a><b></a></b>: mismatched and extraneous end tags, all handled
C7_Witness ==
    /\ events = <<StartTag("a", <<>>), StartTag("b", <<>>), EndTag("a"),
                  EndTag("b")>>
    /\ raised = ""
    /\ pc = "feeding"
    /\ tag_stack = <<>>


(***************************************************************************)
(* C8: for a decoded array [v0, ..., vn] (the empty one included) and a    *)
(* root name r, json_to_etree returns a node named r with exactly n+1      *)
(* children named "i0", ..., "in" in that order, the k-th being the        *)
(* mapping of vk under the name "ik".                                      *)
(***************************************************************************)
C8_IndexNames == <<"i0", "i1", "i2", "i3", "i4", "i5", "i6", "i7", "i8",
                   "i9", "i10", "i11">>

C8_ArrayChildren ==
    (element # None /\ json_obj.type = "list") =>
        LET e == element[1]
            n == Len(json_obj.items)
        IN  /\ e.tag = tag
            /\ Len(e.children) = n
            /\ n <= Len(C8_IndexNames)
            /\ \A k \in 1..n :
                   /\ e.children[k].tag = C8_IndexNames[k]
                   /\ e.children[k] =
                          json_to_etree(json_obj.items[k], C8_IndexNames[k])

\* [[], "x"] under the name r
C8_Witness ==
    /\ element # None
    /\ tag = "r"
    /\ json_obj = JList(<<JList(<<>>), JStr("x")>>)
    /\ Len(element[1].children) = 2
    /\ element[1].children[2].tag = "i1"
    /\ element[1].children[2].text = Some("x")

(***************************************************************************)
(* C9: for a decoded object, the names of the children of the returned     *)
(* node are the object's keys in iteration order (none dropped, renamed,   *)
(* duplicated or reordered), and the child named k is the mapping of the   *)
(* value stored under k.                                                   *)
(***************************************************************************)
C9_ObjectChildren ==
    (element # None /\ json_obj.type = "dict") =>
        LET e == element[1]
            items == json_obj.items
        IN  /\ e.tag = tag
            /\ [i \in 1..Len(e.children) |-> e.children[i].tag] =
                   [i \in 1..Len(items) |-> items[i][1]]
            /\ \A i \in 1..Len(items) :
                   e.children[i] = json_to_etree(items[i][2], items[i][1])

\* {"a": 10, "": [null]}: two keys, iteration order is not sorted order
C9_Witness ==
    /\ element # None
    /\ json_obj = JDict(<< <<"a", JInt(10)>>, <<"", JList(<<JNull>>)>> >>)
    /\ Len(element[1].children) = 2
    /\ element[1].children[1].tag = "a"
    /\ element[1].children[1].text = Some("10")
    /\ element[1].children[2].tag = ""

(***************************************************************************)
(* C10 as stated: in every returned tree each node has exactly one of a    *)
(* set text and a non-empty children list.                                 *)
(***************************************************************************)
RECURSIVE C10_ExactlyOne(_)
C10_ExactlyOne(e) ==
    /\ (e.text # None) # (e.children # <<>>)
    /\ \A i \in 1..Len(e.children) : C10_ExactlyOne(e.children[i])

C10_Original == element # None => C10_ExactlyOne(element[1])

(***************************************************************************)
(* C10 as amended: in every returned tree no node has both a set text and  *)
(* a non-empty children list; the node of a string, number or boolean has  *)
(* its text set and no children, the node of a non-empty array or object   *)
(* has no text and one child per entry, and the node of null, of an empty  *)
(* array or of an empty object has neither text nor children.              *)
(***************************************************************************)
RECURSIVE C10_Shape(_, _)
C10_Shape(v, e) ==
    /\ ~(e.text # None /\ e.children # <<>>)
    /\ CASE v.type \in {"bool", "int", "str"} ->
                e.text # None /\ e.children = <<>>
         [] v.type = "null" -> e.text = None /\ e.children = <<>>
         [] v.type = "list" ->
                /\ e.text = None
                /\ Len(e.children) = Len(v.items)
                /\ \A i \in 1..Len(v.items) :
                       C10_Shape(v.items[i], e.children[i])
         [] v.type = "dict" ->
                /\ e.text = None
                /\ Len(e.children) = Len(v.items)
                /\ \A i \in 1..Len(v.items) :
                       C10_Shape(v.items[i][2], e.children[i])

C10_TextOrChildren == element # None => C10_Shape(json_obj, element[1])

\* [null, {}, ""]: two empty leaves and a leaf whose text is the empty str
C10_Witness ==
    /\ element # None
    /\ json_obj = JList(<<JNull, JDict(<<>>), JStr("")>>)
    /\ element[1].text = None
    /\ element[1].children[1].text = None
    /\ element[1].children[1].children = <<>>
    /\ element[1].children[2].children = <<>>
    /\ element[1].children[3].text = Some("")

(***************************************************************************)
(* C11: every node of every tree either builder produces has a non-empty   *)
(* name, whatever the decoded value (an object with the empty str as a key *)
(* included) and the root name.                                            *)
(***************************************************************************)
RECURSIVE C11_AllNamed(_)
C11_AllNamed(e) ==
    /\ e.tag # ""
    /\ \A i \in 1..Len(e.children) : C11_AllNamed(e.children[i])

C11_NamesNonEmpty ==
    /\ \A n \in 1..Len(nodes) : nodes[n].tag # ""
    /\ element # None => C11_AllNamed(element[1])

(***************************************************************************)
(* C12: during a markup parse the nodes form a strict forest: a node       *)
(* occurs at most once in all the children lists together (so it has at    *)
(* most one parent and is listed once), and no node is its own ancestor.   *)
(***************************************************************************)
\* the places (parent, position) where node n is listed as a child
Occurrences(n) ==
    {pi \in (1..Len(nodes)) \X (1..Len(nodes)) :
         /\ pi[2] <= Len(nodes[pi[1]].children)
         /\ nodes[pi[1]].children[pi[2]] = n}

\* n is reached from a by at most k child links (at least one)
RECURSIVE IsBelow(_, _, _)
IsBelow(n, a, k) ==
    /\ k > 0
    /\ \E i \in 1..Len(nodes[a].children) :
           \/ nodes[a].children[i] = n
           \/ IsBelow(n, nodes[a].children[i], k - 1)

C12_StrictForest ==
    \A n \in 1..Len(nodes) :
        /\ Cardinality(Occurrences(n)) <= 1
        /\ ~IsBelow(n, n, Len(nodes))
        /\ \A i \in 1..Len(nodes[n].children) :
               nodes[n].children[i] \in 1..Len(nodes)

\* <a><b></b><b><a>: four nodes on three levels, two of them siblings
C12_Witness ==
    /\ events = <<StartTag("a", <<>>), StartTag("b", <<>>), EndTag("b"),
                  StartTag("b", <<>>), StartTag("a", <<>>)>>
    /\ nodes[1].children = <<2, 3>>
    /\ nodes[3].children = <<4>>
    /\ tag_stack = <<1, 3, 4>>

(***************************************************************************)
(* Parents and top-level nodes of the tree being built.                    *)
(***************************************************************************)
\* the parent of node n (0 when it has none)
ParentIn(ns, n) ==
    LET P == {p \in 1..Len(ns) :
                  \E i \in 1..Len(ns[p].children) :
                      ns[p].children[i] = n}
    IN  IF P = {} THEN 0 ELSE CHOOSE p \in P : TRUE

Parent(n) == ParentIn(nodes, n)

\* the last node created that has no parent (0 when there is no node)
LastTopLevel ==
    LET T == {n \in 1..Len(nodes) : Parent(n) = 0}
    IN  IF T = {} THEN 0 ELSE CHOOSE n \in T : \A m \in T : m <= n

OnStack(n) == \E i \in 1..Len(tag_stack) : tag_stack[i] = n
SomeStartTag == \E i \in 1..Len(events) : events[i].kind = "StartTag"

(***************************************************************************)
(* C14 as stated: for an event sequence with at least one StartTag, the    *)
(* node returned at the end of the stream has no parent and is the last    *)
(* top-level node seen, also when some opened tags are never closed.       *)
(***************************************************************************)
C14_Original ==
    (pc = "done" /\ SomeStartTag) =>
        /\ result # 0
        /\ Parent(result) = 0
        /\ result = LastTopLevel

(***************************************************************************)
(* C14 as amended: for an event sequence with at least one StartTag, the   *)
(* node returned at the end of the stream is current: the node the last    *)
(* StartTag created when no later EndTag closed a node, and otherwise a    *)
(* closed node (the one the last matching EndTag closed).  It is a         *)
(* top-level node, namely the last one seen, when no tag is left open at   *)
(* the end; when some opened tags are never closed it can be a nested      *)
(* node.                                                                   *)
(***************************************************************************)
C14_ReturnsCurrent ==
    (pc = "done" /\ SomeStartTag) =>
        /\ result # 0
        /\ result = cur_tag
        /\ ~after_end => (result = Len(nodes) /\ Last(tag_stack) = result)
        /\ after_end => ~OnStack(result)
        /\ tag_stack = <<>> =>
               (Parent(result) = 0 /\ result = LastTopLevel)

\* <a></a><b></b>: the second top-level node is returned
C14_Witness ==
    /\ pc = "done"
    /\ events = <<StartTag("a", <<>>), EndTag("a"), StartTag("b", <<>>),
                  EndTag("b")>>
    /\ result = 2
    /\ Parent(2) = 0
    /\ tag_stack = <<>>

(***************************************************************************)
(* C15 as stated: the after-end flag is true exactly when the most recent  *)
(* tag event handled (StartTag or EndTag) was an EndTag.                   *)
(***************************************************************************)
\* the kind of the last StartTag or EndTag of ev ("" when there is none)
RECURSIVE LastTagKind(_)
LastTagKind(ev) ==
    IF ev = <<>> THEN ""
    ELSE IF Last(ev).kind \in {"StartTag", "EndTag"} THEN Last(ev).kind
    ELSE LastTagKind(Front(ev))

C15_Original == after_end <=> (LastTagKind(events) = "EndTag")

(***************************************************************************)
(* C15 as amended: the after-end flag is true exactly when the most recent *)
(* tag event that was not ignored (a StartTag, or an EndTag naming a node  *)
(* on the stack) was an EndTag: a StartTag clears it, an EndTag that       *)
(* matches an open node sets it, an EndTag that matches none and a Text    *)
(* leave it as it was.  A Text event right after an EndTag that closed a   *)
(* node is stored as tail and a Text event right after a StartTag as       *)
(* inner text.                                                             *)
(***************************************************************************)
C15_FlagFollowsEffectiveTag ==
    [][HandlerStep =>
           /\ after_end' =
                  CASE Handled.kind = "StartTag" -> FALSE
                    [] Handled.kind = "EndTag" ->
                           (TopmostNamed(Handled.tag) # 0 \/ after_end)
                    [] Handled.kind = "Text" -> after_end
           /\ (Handled.kind = "Text" /\ events # <<>>) =>
                  LET stored == Some(Concat(strip_pieces(Handled.data)))
                  IN  /\ Last(events).kind = "StartTag" =>
                             nodes'[cur_tag].text = stored
                      /\ (Last(events).kind = "EndTag" /\ pops > 0) =>
                             nodes'[cur_tag].tail = stored
      ]_vars

\* <a></b>x: the end tag is ignored, the flag stays clear and x is text
C15_Witness ==
    /\ events = <<StartTag("a", <<>>), EndTag("b"), Text(<<"x">>)>>
    /\ ~after_end
    /\ nodes[1].text = Some("x")
    /\ nodes[1].tail = None

(***************************************************************************)
(* C16: a Text(data) event changes at most one field of one node: nothing  *)
(* when current is unset; otherwise the whitespace-trimmed data replaces   *)
(* the tail of current when the after-end flag is set and the text of      *)
(* current when it is not.  The stack, current, the flag, every children   *)
(* list and every other node stay as they were.                            *)
(***************************************************************************)
C16_TextChangesOneField ==
    [][(HandlerStep /\ Handled.kind = "Text") =>
           LET stored == Some(Concat(TrimOf(Handled.data)))
           IN  /\ UNCHANGED <<tag_stack, cur_tag, after_end>>
               /\ raised' = ""
               /\ cur_tag = 0 => nodes' = nodes
               /\ (cur_tag # 0 /\ after_end) =>
                      nodes' = [nodes EXCEPT ![cur_tag].tail = stored]
               /\ (cur_tag # 0 /\ ~after_end) =>
                      nodes' = [nodes EXCEPT ![cur_tag].text = stored]
      ]_vars

\* <a><b></b> y\n: the trimmed data is the tail of b, a is untouched
C16_Witness ==
    /\ events = <<StartTag("a", <<>>), StartTag("b", <<>>), EndTag("b"),
                  Text(<<" ", "y", "\n">>)>>
    /\ nodes[2].tail = Some("y")
    /\ nodes[2].text = None
    /\ nodes[1].text = None /\ nodes[1].tail = None
    /\ tag_stack = <<1>>

(***************************************************************************)
(* C17: an EndTag event never changes any node's parent or children list:  *)
(* every node that is auto-closed because an enclosing tag was closed      *)
(* stays a child of the node it was appended to when it was opened, at the *)
(* same position among that node's children.                               *)
(***************************************************************************)
C17_EndTagKeepsShape ==
    [][(HandlerStep /\ Handled.kind = "EndTag") =>
           /\ Len(nodes') = Len(nodes)
           /\ \A n \in 1..Len(nodes) :
                  /\ nodes'[n].children = nodes[n].children
                  /\ ParentIn(nodes', n) = Parent(n)
           \* the auto-closed nodes: popped by this step, still where they were
           /\ \A i \in 1..Len(tag_stack) :
                  (i > Len(tag_stack') /\ i > 1) =>
                      /\ ParentIn(nodes', tag_stack[i]) = tag_stack[i - 1]
                      /\ Last(nodes'[tag_stack[i - 1]].children) = tag_stack[i]
      ]_vars

\* <a><b><b></a>: one end tag pops three nodes, both b's auto-closed in place
C17_Witness ==
    /\ events = <<StartTag("a", <<>>), StartTag("b", <<>>),
                  StartTag("b", <<>>), EndTag("a")>>
    /\ pops = 3
    /\ tag_stack = <<>>
    /\ nodes[1].children = <<2>>
    /\ nodes[2].children = <<3>>
    /\ Parent(3) = 2 /\ Parent(2) = 1

(***************************************************************************)
(* C18: in every reachable state of a markup parse the open-tag stack is a *)
(* root-to-leaf path of the tree being built: its elements are pairwise    *)
(* distinct, the bottom element has no parent, and each other element is   *)
(* the last child of the element immediately below it.  A node is pushed   *)
(* exactly once, when it is created, and is never on the stack again after *)
(* being popped.                                                           *)
(***************************************************************************)
StackIsPath ==
    /\ \A i, j \in 1..Len(tag_stack) : tag_stack[i] = tag_stack[j] => i = j
    /\ \A i \in 1..Len(tag_stack) : tag_stack[i] \in 1..Len(nodes)
    /\ tag_stack # <<>> => Parent(tag_stack[1]) = 0
    /\ \A i \in 2..Len(tag_stack) :
           /\ nodes[tag_stack[i - 1]].children # <<>>
           /\ Last(nodes[tag_stack[i - 1]].children) = tag_stack[i]
    \* nothing hangs below the top of the stack that is still open
    /\ \A n \in 1..Len(nodes) :
           OnStack(n) => \A m \in 1..Len(nodes) :
                             (OnStack(m) /\ IsBelow(m, n, Len(nodes))) =>
                                 \E i, j \in 1..Len(tag_stack) :
                                     /\ i < j
                                     /\ tag_stack[i] = n
                                     /\ tag_stack[j] = m

\* the only node that can enter the stack is the one just created, at the
\* back; every other step leaves the stack alone or removes from the back
PushedOnce ==
    /\ \A n \in 1..Len(nodes') :
           ((\E i \in 1..Len(tag_stack') : tag_stack'[i] = n) /\ ~OnStack(n))
               => /\ n = Len(nodes) + 1
                  /\ Len(nodes') = Len(nodes) + 1
                  /\ tag_stack' = Append(tag_stack, n)
    /\ Len(nodes') # Len(nodes) =>
           /\ Len(nodes') = Len(nodes) + 1
           /\ tag_stack' = Append(tag_stack, Len(nodes'))
    /\ Len(nodes') = Len(nodes) =>
           /\ Len(tag_stack') <= Len(tag_stack)
           /\ tag_stack' = SubSeq(tag_stack, 1, Len(tag_stack'))

C18_StackIsRootToLeafPath == []StackIsPath /\ [][PushedOnce]_vars

\* <a><b></b><b><a>: three open nodes, the first b popped and not back
C18_Witness ==
    /\ events = <<StartTag("a", <<>>), StartTag("b", <<>>), EndTag("b"),
                  StartTag("b", <<>>), StartTag("a", <<>>)>>
    /\ tag_stack = <<1, 3, 4>>
    /\ ~OnStack(2)
    /\ Parent(1) = 0 /\ Parent(3) = 1 /\ Parent(4) = 3
    /\ Last(nodes[1].children) = 3

(***************************************************************************)
(* C19: a node's text is only ever assigned while that node is on top of   *)
(* the stack and has no children, and a node's tail is only ever assigned  *)
(* after that node has been popped from the stack; hence a node's text     *)
(* never holds content that appeared after one of its children, and a      *)
(* still-open node never has a tail.                                       *)
(***************************************************************************)
OpenHasNoTail == \A n \in 1..Len(nodes) : OnStack(n) => nodes[n].tail = None

TextTailDiscipline ==
    \* the assignment made by a Text event
    /\ (HandlerStep /\ Handled.kind = "Text" /\ cur_tag # 0) =>
           /\ ~after_end =>
                  /\ tag_stack # <<>>
                  /\ cur_tag = Last(tag_stack)
                  /\ nodes[cur_tag].children = <<>>
                  /\ nodes'[cur_tag].tail = nodes[cur_tag].tail
           /\ after_end =>
                  /\ ~OnStack(cur_tag)
                  /\ \E i \in 1..Len(events) :
                         events[i].kind = "StartTag"
                  /\ nodes'[cur_tag].text = nodes[cur_tag].text
    \* no other way for a text or a tail to change
    /\ \A n \in 1..Len(nodes) :
           /\ nodes'[n].text # nodes[n].text =>
                  /\ HandlerStep /\ Handled.kind = "Text"
                  /\ tag_stack # <<>> /\ n = Last(tag_stack)
                  /\ nodes[n].children = <<>>
           /\ nodes'[n].tail # nodes[n].tail =>
                  /\ HandlerStep /\ Handled.kind = "Text"
                  /\ ~OnStack(n)
    \* a node is created with neither
    /\ Len(nodes') > Len(nodes) =>
           /\ nodes'[Len(nodes')].text = None
           /\ nodes'[Len(nodes')].tail = None

C19_TextBeforeChildrenTailAfterClose ==
    []OpenHasNoTail /\ [][TextTailDiscipline]_vars

\* <a>x<b></b> y\n: x is the text of the open a, y the tail of the closed b
C19_Witness ==
    /\ events = <<StartTag("a", <<>>), Text(<<"x">>), StartTag("b", <<>>),
                  EndTag("b"), Text(<<" ", "y", "\n">>)>>
    /\ tag_stack = <<1>>
    /\ nodes[1].text = Some("x") /\ nodes[1].tail = None
    /\ nodes[2].text = None /\ nodes[2].tail = Some("y")

(***************************************************************************)
(* C13: running the markup builder twice on the same event sequence yields *)
(* two structurally equal trees (same names, attributes, text, tail and    *)
(* child order at every position): each run starts from an empty stack,    *)
(* unset current and cleared after-end flag, and no state of one run is    *)
(* visible to the other.                                                   *)
(***************************************************************************)
C13_RunsAreIndependent ==
    \* each run starts afresh
    /\ (pc = "feeding" /\ events = <<>>) =>
           (tag_stack = <<>> /\ cur_tag = 0 /\ ~after_end)
    /\ call = 2 =>
           \* the second run leaves the elements of the first as they were
           /\ Len(first_heap) <= Len(nodes)
           /\ SubSeq(nodes, 1, Len(first_heap)) = first_heap
           \* and refers to none of them
           /\ cur_tag # 0 => cur_tag > Len(first_heap)
           /\ \A i \in 1..Len(tag_stack) : tag_stack[i] > Len(first_heap)
           /\ \A n \in 1..Len(nodes) :
                  n > Len(first_heap) =>
                      \A i \in 1..Len(nodes[n].children) :
                          nodes[n].children[i] > Len(first_heap)
    /\ (call = 2 /\ pc = "done") =>
           /\ first = 0 <=> result = 0
           /\ first # 0 =>
                  /\ result > Len(first_heap)
                  /\ ToTree(nodes, result) = ToTree(nodes, first)
                  /\ ToTree(nodes, first) = ToTree(first_heap, first)

\* <a>x<b></b> twice: the closed b is returned both times, as two elements
C13_Witness ==
    /\ call = 2 /\ pc = "done"
    /\ events = <<StartTag("a", <<>>), Text(<<"x">>), StartTag("b", <<>>),
                  EndTag("b")>>
    /\ first = 2 /\ result = 4
    /\ Len(first_heap) = 2 /\ Len(nodes) = 4
    /\ nodes[1].text = Some("x") /\ nodes[3].text = Some("x")
    /\ nodes[1].children = <<2>> /\ nodes[3].children = <<4>>

=============================================================================
